---- MODULE Spec2Model ----
(***************************************************************************)
(* A model of the KeySet library (src/src/lib.rs): a BTreeMap of keys      *)
(* indexed by the sort key of their (num_inputs, num_outputs) size, with   *)
(* exact and best-fit lookup, under the two shipped orderings.             *)
(***************************************************************************)
EXTENDS Integers, Sequences, FiniteSets, TLC

\* ------------------------------------------------------------------ bounds
\* Sizes range over 1..MaxSize in each dimension.
MaxSize == 2
\* A batch handed to the constructor holds at most MaxBatch keys.
MaxBatch == 3
\* Where construction alone is explored, a batch holds at most MaxNewBatch keys.
MaxNewBatch == 4
\* A serialized form handed to deserialize holds at most MaxWire pairs.
MaxWire == 2

Sizes == 1..MaxSize
Shapes == Sizes \X Sizes

\* ------------------------------------------------------------ key ordering
\* The two orderings the library ships.
Orders == {"OrderByInputs", "OrderByOutputs"}

\* KeyOrder is a public trait: an ordering written by a caller. The derived
\* Default of KeySet<K, Order> asks for Order: Default, which neither shipped
\* ordering implements, so only such an ordering (with a key type that is
\* Default) gives access to it.
CallerOrder == "CallerOrder"

AllOrders == Orders \cup {CallerOrder}

\* A by-outputs ordering that forgets to swap the counts.
sort_key_noswap(Order, num_inputs, num_outputs) == <<num_inputs, num_outputs>>

\* KeyOrder::sort_key of OrderByInputs and of OrderByOutputs; the caller's
\* ordering is taken to sort by inputs first.
sort_key(Order, num_inputs, num_outputs) ==
    CASE Order = "OrderByInputs" -> <<num_inputs, num_outputs>>
      [] Order = "OrderByOutputs" -> <<num_outputs, num_inputs>>
      [] OTHER -> <<num_inputs, num_outputs>>

\* Ord of SortKey = (usize, usize): lexicographic.
SortKeyLess(a, b) == a[1] < b[1] \/ (a[1] = b[1] /\ a[2] < b[2])

\* ------------------------------------------------------------------- keys
\* A SizedKey: its size, and an identity standing for the key material.
Key(shape, id) == [num_inputs |-> shape[1], num_outputs |-> shape[2], id |-> id]

\* The batch of keys made from a sequence of shapes; the n-th key has id n.
KeysOf(shapes) == [n \in 1..Len(shapes) |-> Key(shapes[n], n)]

\* ---------------------------------------------------------------- BTreeMap
\* A BTreeMap<SortKey, K> is a function from the sort keys it holds.
EmptyMap == <<>>

contains_key(map, k) == k \in DOMAIN map

insert(map, k, v) == [j \in (DOMAIN map) \cup {k} |-> IF j = k THEN v ELSE map[j]]

get(map, k) == IF k \in DOMAIN map THEN [tag |-> "Some", key |-> map[k]]
                                   ELSE [tag |-> "None"]

FirstKey(S) == CHOOSE k \in S : \A j \in S : j = k \/ SortKeyLess(k, j)

\* The sort keys of S in the order a BTreeMap iterates them.
RECURSIVE Ascending(_)
Ascending(S) == IF S = {} THEN <<>>
                ELSE LET k == FirstKey(S) IN <<k>> \o Ascending(S \ {k})

\* The range with its start Excluded.
range_excluded(map, start) ==
    SelectSeq(Ascending(DOMAIN map), LAMBDA k : SortKeyLess(start, k))

\* BTreeMap::range((Included(start), Unbounded)): the sort keys in range.
range(map, start) ==
    SelectSeq(Ascending(DOMAIN map), LAMBDA k : ~SortKeyLess(k, start))

\* BTreeMap::values.
values(map) == LET asc == Ascending(DOMAIN map)
               IN [n \in 1..Len(asc) |-> map[asc[n]]]

\* ------------------------------------------------------------- KeySet::new
RECURSIVE NewLoop(_, _, _, _)
NewLoop(map, keys, n, Order) ==
    IF n > Len(keys)
    THEN IF map = EmptyMap
         THEN [tag |-> "Err", error |-> "NoKeys"]
         ELSE [tag |-> "Ok", origin |-> "new", keys |-> map]
    ELSE LET key == keys[n]
             sk  == sort_key(Order, key.num_inputs, key.num_outputs)
         IN IF contains_key(map, sk)
            THEN [tag |-> "Err", error |-> "DuplicateKeys",
                  num_inputs |-> key.num_inputs, num_outputs |-> key.num_outputs]
            ELSE NewLoop(insert(map, sk, key), keys, n + 1, Order)

\* new without the contains_key test: a later key replaces an earlier one.
RECURSIVE NewLoopOverwrite(_, _, _, _)
NewLoopOverwrite(map, keys, n, Order) ==
    IF n > Len(keys)
    THEN IF map = EmptyMap
         THEN [tag |-> "Err", error |-> "NoKeys"]
         ELSE [tag |-> "Ok", origin |-> "new", keys |-> map]
    ELSE LET key == keys[n]
             sk  == sort_key(Order, key.num_inputs, key.num_outputs)
         IN NewLoopOverwrite(insert(map, sk, key), keys, n + 1, Order)

new_overwrite(keys, Order) == NewLoopOverwrite(EmptyMap, keys, 1, Order)

\* new without the is_empty test.
new_noEmptyCheck(keys, Order) ==
    IF Len(keys) = 0
    THEN [tag |-> "Ok", origin |-> "new", keys |-> EmptyMap]
    ELSE NewLoop(EmptyMap, keys, 1, Order)

new(keys, Order) == NewLoop(EmptyMap, keys, 1, Order)

\* -------------------------------------------------------- KeySet queries
\* max_size reading the first entry (next) instead of the last (next_back).
max_size_first(map) ==
    LET asc == Ascending(DOMAIN map)
    IN IF Len(asc) = 0
       THEN [tag |-> "Panic"]
       ELSE LET key == map[asc[1]]
            IN [tag |-> "Size", num_inputs |-> key.num_inputs,
                num_outputs |-> key.num_outputs]

\* KeySet::max_size: the size of the last entry; unwrap panics on none.
max_size(map) ==
    LET asc == Ascending(DOMAIN map)
    IN IF Len(asc) = 0
       THEN [tag |-> "Panic"]
       ELSE LET key == map[asc[Len(asc)]]
            IN [tag |-> "Size", num_inputs |-> key.num_inputs,
                num_outputs |-> key.num_outputs]

\* KeySet::key_for_size.
key_for_size(map, Order, num_inputs, num_outputs) ==
    get(map, sort_key(Order, num_inputs, num_outputs))

\* The find_map closure of best_fit_key over the entries of rng from n on.
RECURSIVE find_map(_, _, _, _, _)
find_map(map, rng, n, num_inputs, num_outputs) ==
    IF n > Len(rng)
    THEN [tag |-> "None"]
    ELSE LET key == map[rng[n]]
             key_inputs == key.num_inputs
             key_outputs == key.num_outputs
         IN IF key_inputs >= num_inputs /\ key_outputs >= num_outputs
            THEN [tag |-> "Some", num_inputs |-> key_inputs,
                  num_outputs |-> key_outputs, key |-> key]
            ELSE find_map(map, rng, n + 1, num_inputs, num_outputs)

\* find_map with a closure that tests the inputs alone.
RECURSIVE find_map_inputs(_, _, _, _)
find_map_inputs(map, rng, n, num_inputs) ==
    IF n > Len(rng)
    THEN [tag |-> "None"]
    ELSE LET key == map[rng[n]]
         IN IF key.num_inputs >= num_inputs
            THEN [tag |-> "Some", num_inputs |-> key.num_inputs,
                  num_outputs |-> key.num_outputs, key |-> key]
            ELSE find_map_inputs(map, rng, n + 1, num_inputs)

\* best_fit_key that tests the inputs alone.
best_fit_key_inputsOnly(map, Order, num_inputs, num_outputs) ==
    LET rng == range(map, sort_key(Order, num_inputs, num_outputs))
        hit == find_map_inputs(map, rng, 1, num_inputs)
    IN IF hit.tag = "Some"
       THEN [tag |-> "Ok", num_inputs |-> hit.num_inputs,
             num_outputs |-> hit.num_outputs, key |-> hit.key]
       ELSE LET m == max_size(map)
            IN IF m.tag = "Panic"
               THEN [tag |-> "Panic"]
               ELSE [tag |-> "Err", num_inputs |-> m.num_inputs,
                     num_outputs |-> m.num_outputs]

\* best_fit_key that keeps the last fitting entry of the range, not the first.
best_fit_key_last(map, Order, num_inputs, num_outputs) ==
    LET rng == range(map, sort_key(Order, num_inputs, num_outputs))
        fit == SelectSeq(rng, LAMBDA k : /\ map[k].num_inputs >= num_inputs
                                         /\ map[k].num_outputs >= num_outputs)
    IN IF Len(fit) > 0
       THEN LET key == map[fit[Len(fit)]]
            IN [tag |-> "Ok", num_inputs |-> key.num_inputs,
                num_outputs |-> key.num_outputs, key |-> key]
       ELSE LET m == max_size(map)
            IN IF m.tag = "Panic"
               THEN [tag |-> "Panic"]
               ELSE [tag |-> "Err", num_inputs |-> m.num_inputs,
                     num_outputs |-> m.num_outputs]

\* KeySet::best_fit_key.
best_fit_key(map, Order, num_inputs, num_outputs) ==
    LET rng == range(map, sort_key(Order, num_inputs, num_outputs))
        hit == find_map(map, rng, 1, num_inputs, num_outputs)
    IN IF hit.tag = "Some"
       THEN [tag |-> "Ok", num_inputs |-> hit.num_inputs,
             num_outputs |-> hit.num_outputs, key |-> hit.key]
       ELSE LET m == max_size(map)
            IN IF m.tag = "Panic"
               THEN [tag |-> "Panic"]
               ELSE [tag |-> "Err", num_inputs |-> m.num_inputs,
                     num_outputs |-> m.num_outputs]

\* exact_fit_key that looks the size up by inputs first whatever the ordering.
exact_fit_key_byInputs(map, Order, num_inputs, num_outputs) ==
    get(map, <<num_inputs, num_outputs>>)

\* KeySet::exact_fit_key.
exact_fit_key(map, Order, num_inputs, num_outputs) ==
    get(map, sort_key(Order, num_inputs, num_outputs))

\* KeySet::iter.
iter(map) == values(map)

\* FromIterator::from_iter: new(..).unwrap().
from_iter(keys, Order) ==
    LET r == new(keys, Order)
    IN IF r.tag = "Ok" THEN r ELSE [tag |-> "Panic"]

\* The derived Default: a KeySet over BTreeMap::default().
default == [tag |-> "Ok", origin |-> "default", keys |-> EmptyMap]

\* ---------------------------------------------------------- deserialization
\* The serialized form of a KeySet is the sequence of the (sort key, key)
\* pairs of its map (serde_as Vec<(_, _)>); deserializing collects the pairs
\* into a BTreeMap, a later pair replacing an earlier one of the same sort key.
RECURSIVE Collect(_, _, _)
Collect(map, pairs, n) ==
    IF n > Len(pairs) THEN map
    ELSE Collect(insert(map, pairs[n][1], pairs[n][2]), pairs, n + 1)

\* The derived Deserialize: an error on a form that does not parse, else a
\* KeySet over the map read, with none of the tests of new.
deserialize(w) ==
    IF w.tag = "Malformed"
    THEN [tag |-> "Err", error |-> "Deserialize"]
    ELSE [tag |-> "Ok", origin |-> "deserialize",
          keys |-> Collect(EmptyMap, w.pairs, 1)]

\* ------------------------------------------------------------------- state
VARIABLES
    batch,     \* the keys available to build collections from
    ks,        \* per ordering: what constructing KeySet<K, Order> gave
    last,      \* the most recent call on a collection and what it returned
    wire,      \* the serialized form available to deserialize from
    pc         \* "running", or "panicked" once a call has panicked

vars == <<batch, ks, last, wire, pc>>

NotBuilt == [tag |-> "None"]
NoWire == [tag |-> "None"]
NoCall == [op |-> "none", order |-> "none", num_inputs |-> 0, num_outputs |-> 0,
           ret |-> [tag |-> "None"]]

Init ==
    /\ batch \in {KeysOf(s) : s \in UNION {[1..n -> Shapes] : n \in 0..MaxBatch}}
    /\ ks = [o \in AllOrders |-> NotBuilt]
    /\ last = NoCall
    /\ wire = NoWire
    /\ pc = "running"

Built(Order) == ks[Order].tag = "Ok"

Call(op, Order, num_inputs, num_outputs, ret) ==
    /\ last' = [op |-> op, order |-> Order, num_inputs |-> num_inputs,
                num_outputs |-> num_outputs, ret |-> ret]
    /\ pc' = IF ret.tag = "Panic" THEN "panicked" ELSE "running"
    /\ UNCHANGED <<batch, ks, wire>>

New(Order) ==
    /\ pc = "running"
    /\ ks[Order] = NotBuilt
    /\ ks' = [ks EXCEPT ![Order] = new(batch, Order)]
    /\ UNCHANGED <<batch, last, wire, pc>>

FromIter(Order) ==
    /\ pc = "running"
    /\ ks[Order] = NotBuilt
    /\ LET r == from_iter(batch, Order)
       IN IF r.tag = "Panic"
          THEN pc' = "panicked" /\ UNCHANGED ks
          ELSE ks' = [ks EXCEPT ![Order] = r] /\ UNCHANGED pc
    /\ UNCHANGED <<batch, last, wire>>

Default(Order) ==
    /\ pc = "running"
    /\ ks[Order] = NotBuilt
    /\ ks' = [ks EXCEPT ![Order] = default]
    /\ UNCHANGED <<batch, last, wire, pc>>

MaxSizeCall(Order) ==
    /\ pc = "running"
    /\ Built(Order)
    /\ Call("max_size", Order, 0, 0, max_size(ks[Order].keys))

KeyForSize(Order, num_inputs, num_outputs) ==
    /\ pc = "running"
    /\ Built(Order)
    /\ Call("key_for_size", Order, num_inputs, num_outputs,
            key_for_size(ks[Order].keys, Order, num_inputs, num_outputs))

BestFitKey(Order, num_inputs, num_outputs) ==
    /\ pc = "running"
    /\ Built(Order)
    /\ Call("best_fit_key", Order, num_inputs, num_outputs,
            best_fit_key(ks[Order].keys, Order, num_inputs, num_outputs))

ExactFitKey(Order, num_inputs, num_outputs) ==
    /\ pc = "running"
    /\ Built(Order)
    /\ Call("exact_fit_key", Order, num_inputs, num_outputs,
            exact_fit_key(ks[Order].keys, Order, num_inputs, num_outputs))

Iter(Order) ==
    /\ pc = "running"
    /\ Built(Order)
    /\ Call("iter", Order, 0, 0, [tag |-> "Iter", keys |-> iter(ks[Order].keys)])

Deserialize(Order) ==
    /\ pc = "running"
    /\ ks[Order] = NotBuilt
    /\ wire # NoWire
    /\ ks' = [ks EXCEPT ![Order] = deserialize(wire)]
    /\ UNCHANGED <<batch, last, wire, pc>>

Construct == \E Order \in Orders : New(Order) \/ FromIter(Order)

Query(Order) ==
    \/ MaxSizeCall(Order)
    \/ Iter(Order)
    \/ \E num_inputs \in Sizes, num_outputs \in Sizes :
          \/ KeyForSize(Order, num_inputs, num_outputs)
          \/ BestFitKey(Order, num_inputs, num_outputs)
          \/ ExactFitKey(Order, num_inputs, num_outputs)

Next == Construct \/ \E Order \in Orders : Query(Order)

Spec == Init /\ [][Next]_vars

\* Construction through every public constructor, the derived Default too.
NextDefault == Next \/ Default(CallerOrder) \/ Query(CallerOrder)

SpecDefault == Init /\ [][NextDefault]_vars

\* Construction alone, from batches of up to MaxNewBatch keys.
InitNew ==
    /\ batch \in {KeysOf(s) : s \in UNION {[1..n -> Shapes] : n \in 0..MaxNewBatch}}
    /\ ks = [o \in AllOrders |-> NotBuilt]
    /\ last = NoCall
    /\ wire = NoWire
    /\ pc = "running"

SpecNew == InitNew /\ [][Construct]_vars

\* The serialized forms of up to MaxWire pairs, the n-th carrying the key of
\* id n under any sort key, and a form that does not parse.
Wires ==
    {[tag |-> "Pairs",
      pairs |-> [n \in 1..Len(s) |-> <<s[n][1], Key(s[n][2], n)>>]] :
         s \in UNION {[1..n -> Shapes \X Shapes] : n \in 0..MaxWire}}
    \cup {[tag |-> "Malformed"]}

\* A KeySet read from a serialized form instead of built by new.
InitDeserialize ==
    /\ batch = <<>>
    /\ ks = [o \in AllOrders |-> NotBuilt]
    /\ last = NoCall
    /\ wire \in Wires
    /\ pc = "running"

NextDeserialize ==
    \E Order \in Orders : Deserialize(Order) \/ Query(Order)

SpecDeserialize == InitDeserialize /\ [][NextDeserialize]_vars

\* ------------------------------------------------------------- properties
\* Key a dominates the request (i, o).
Dominates(a, i, o) == a.num_inputs >= i /\ a.num_outputs >= o

\* Key a comes strictly before key b in the ordering strategy Order.
SortsBefore(Order, a, b) ==
    IF Order = "OrderByInputs"
    THEN \/ a.num_inputs < b.num_inputs
         \/ a.num_inputs = b.num_inputs /\ a.num_outputs < b.num_outputs
    ELSE \/ a.num_outputs < b.num_outputs
         \/ a.num_outputs = b.num_outputs /\ a.num_inputs < b.num_inputs

SameShape(a, b) == a.num_inputs = b.num_inputs /\ a.num_outputs = b.num_outputs

BatchKeys == {batch[n] : n \in 1..Len(batch)}

HasDuplicate == \E m, n \in 1..Len(batch) : m < n /\ SameShape(batch[m], batch[n])

\* The keys held by the collection of ordering Order.
Stored(Order) == {ks[Order].keys[k] : k \in DOMAIN ks[Order].keys}

BuiltByNew(Order) ==
    Order \in AllOrders /\ ks[Order].tag = "Ok" /\ ks[Order].origin = "new"

\* C1: best_fit_key on a collection built by new succeeds exactly when some
\* stored key dominates the request, and then returns a stored dominating key
\* with its shape, the least in sort order among the dominating ones;
\* otherwise it fails with the shape of the entry greatest in sort order.
C1_BestFitOrMaxSize ==
    (last.op = "best_fit_key" /\ BuiltByNew(last.order)) =>
        LET Order == last.order
            ret == last.ret
            dom == {k \in Stored(Order) :
                       Dominates(k, last.num_inputs, last.num_outputs)}
        IN /\ ret.tag \in {"Ok", "Err"}
           /\ ret.tag = "Err" <=> dom = {}
           /\ ret.tag = "Ok" =>
                 /\ ret.key \in dom
                 /\ ret.key \in BatchKeys
                 /\ ret.num_inputs = ret.key.num_inputs
                 /\ ret.num_outputs = ret.key.num_outputs
                 /\ \A d \in dom : d = ret.key \/ SortsBefore(Order, ret.key, d)
           /\ ret.tag = "Err" =>
                 \E m \in Stored(Order) :
                    /\ \A k \in Stored(Order) : k = m \/ SortsBefore(Order, k, m)
                    /\ ret.num_inputs = m.num_inputs
                    /\ ret.num_outputs = m.num_outputs

\* A best fit that passed over a stored key in range that does not dominate.
C1_Witness ==
    /\ last.op = "best_fit_key"
    /\ BuiltByNew(last.order)
    /\ last.ret.tag = "Ok"
    /\ \E k \in Stored(last.order) :
          /\ ~Dominates(k, last.num_inputs, last.num_outputs)
          /\ SortsBefore(last.order, k, last.ret.key)
          /\ ~SortsBefore(last.order, k,
                 [num_inputs |-> last.num_inputs, num_outputs |-> last.num_outputs])

\* C3: a non-empty batch of pairwise-distinct shapes is accepted by new, and
\* iter yields exactly the keys of the batch, each once, in strictly
\* ascending order of the ordering strategy.
C3_IterSorted ==
    (Len(batch) > 0 /\ ~HasDuplicate) =>
        /\ \A Order \in Orders : ks[Order] # NotBuilt => ks[Order].tag = "Ok"
        /\ last.op = "iter" =>
              LET out == last.ret.keys
              IN /\ Len(out) = Len(batch)
                 /\ {out[n] : n \in 1..Len(out)} = BatchKeys
                 /\ \A n \in 1..(Len(out) - 1) :
                       SortsBefore(last.order, out[n], out[n + 1])

\* iter on a collection of three keys handed over out of order.
C3_Witness ==
    /\ last.op = "iter"
    /\ last.order = "OrderByOutputs"
    /\ Len(last.ret.keys) = 3
    /\ last.ret.keys[1] # batch[1]
    /\ last.ret.keys[3] # batch[3]

\* The first position of the batch whose shape occurred at an earlier one.
FirstDuplicate ==
    CHOOSE n \in 1..Len(batch) :
        /\ \E m \in 1..(n - 1) : SameShape(batch[m], batch[n])
        /\ \A j \in 1..(n - 1) : ~\E m \in 1..(j - 1) : SameShape(batch[m], batch[j])

\* C4: on a batch with two keys of one shape, new returns DuplicateKeys with
\* the shape of the first key whose shape appeared earlier, and no collection.
C4_DuplicateKeys ==
    HasDuplicate =>
        \A Order \in Orders :
            ks[Order] # NotBuilt =>
                /\ ks[Order].tag = "Err"
                /\ ks[Order].error = "DuplicateKeys"
                /\ ks[Order].num_inputs = batch[FirstDuplicate].num_inputs
                /\ ks[Order].num_outputs = batch[FirstDuplicate].num_outputs

\* new has rejected a batch with two repeated shapes, the one repeated first
\* being the one that occurs later.
C4_Witness ==
    /\ Len(batch) = 4
    /\ ~SameShape(batch[1], batch[2])
    /\ SameShape(batch[2], batch[3])
    /\ SameShape(batch[1], batch[4])
    /\ ks["OrderByOutputs"].tag = "Err"
    /\ ks["OrderByOutputs"].num_inputs = batch[2].num_inputs
    /\ ks["OrderByOutputs"].num_outputs = batch[2].num_outputs

\* C5: new returns NoKeys on the empty batch, and on the empty batch only.
C5_NoKeys ==
    \A Order \in Orders :
        ks[Order] # NotBuilt =>
            ((ks[Order].tag = "Err" /\ ks[Order].error = "NoKeys") <=> Len(batch) = 0)

\* new has been applied to the empty batch.
C5_Witness ==
    /\ Len(batch) = 0
    /\ ks["OrderByInputs"].tag = "Err"

\* C6: on a collection built by new, exact_fit_key and key_for_size return the
\* stored key of the requested shape, or nothing when no key has that shape,
\* and best_fit_key on a stored shape returns that shape and that key.
C6_ExactFit ==
    BuiltByNew(last.order) =>
        LET match == {k \in BatchKeys : k.num_inputs = last.num_inputs
                                        /\ k.num_outputs = last.num_outputs}
        IN /\ last.op \in {"exact_fit_key", "key_for_size"} =>
                 IF match = {} THEN last.ret.tag = "None"
                 ELSE last.ret.tag = "Some" /\ last.ret.key \in match
           /\ (last.op = "best_fit_key" /\ match # {}) =>
                 /\ last.ret.tag = "Ok"
                 /\ last.ret.key \in match
                 /\ last.ret.num_inputs = last.num_inputs
                 /\ last.ret.num_outputs = last.num_outputs

\* exact_fit_key has found a key whose two counts differ, by outputs first.
C6_Witness ==
    /\ last.op = "exact_fit_key"
    /\ last.order = "OrderByOutputs"
    /\ last.ret.tag = "Some"
    /\ last.num_inputs # last.num_outputs
    /\ Len(batch) >= 2

\* The step is a call on one collection right after the call of the same
\* operation, with the same request, on the collection of the other ordering,
\* both built by new from the one batch.
TwinCalls ==
    /\ BuiltByNew("OrderByInputs")
    /\ BuiltByNew("OrderByOutputs")
    /\ last.op = last'.op
    /\ last.order \in Orders /\ last'.order \in Orders
    /\ last.order # last'.order
    /\ last.num_inputs = last'.num_inputs
    /\ last.num_outputs = last'.num_outputs

\* The keys of the batch that dominate (i, o) and have no other such key
\* at or below them in both counts.
MinimalDominating(i, o) ==
    {k \in BatchKeys :
        /\ Dominates(k, i, o)
        /\ \A j \in BatchKeys :
              (Dominates(j, i, o) /\ j.num_inputs <= k.num_inputs
                 /\ j.num_outputs <= k.num_outputs) => j = k}

ExactAgree ==
    last.op \in {"exact_fit_key", "key_for_size"} =>
        /\ last.ret.tag = last'.ret.tag
        /\ last.ret.tag = "Some" => last.ret.key = last'.ret.key

SameMatchedShape ==
    /\ last.ret.num_inputs = last'.ret.num_inputs
    /\ last.ret.num_outputs = last'.ret.num_outputs

\* C2 (as stated): the collections of the two orderings agree on exact_fit_key,
\* on whether best_fit_key succeeds, and on the shape it returns.
C2_SameBestFit ==
    [][TwinCalls =>
        /\ ExactAgree
        /\ last.op = "best_fit_key" =>
              /\ last.ret.tag = last'.ret.tag
              /\ last.ret.tag = "Ok" => SameMatchedShape]_vars

\* C2 (amended): the collections of the two orderings agree on exact_fit_key
\* and on whether best_fit_key succeeds; the shapes best_fit_key returns are
\* the same whenever a single stored shape is minimal, in both counts, among
\* those dominating the request.
C2_AgreeOnSuccess ==
    [][TwinCalls =>
        /\ ExactAgree
        /\ last.op = "best_fit_key" =>
              /\ last.ret.tag = last'.ret.tag
              /\ (/\ last.ret.tag = "Ok"
                  /\ Cardinality(MinimalDominating(last.num_inputs,
                                                   last.num_outputs)) = 1)
                    => SameMatchedShape]_vars

\* best_fit_key has succeeded on the by-outputs collection, its by-inputs twin
\* built too, with two stored keys dominating and one of them below the other.
C2_Witness ==
    /\ BuiltByNew("OrderByInputs")
    /\ BuiltByNew("OrderByOutputs")
    /\ last.op = "best_fit_key"
    /\ last.order = "OrderByOutputs"
    /\ last.ret.tag = "Ok"
    /\ Cardinality({k \in BatchKeys :
                      Dominates(k, last.num_inputs, last.num_outputs)}) >= 2
    /\ Cardinality(MinimalDominating(last.num_inputs, last.num_outputs)) = 1

\* C7: every KeySet obtained from new, from_iter or the derived Default holds
\* at least one key, and max_size never panics on it, called directly or from
\* best_fit_key.
C7_NeverEmpty ==
    /\ \A Order \in AllOrders :
          ks[Order].tag = "Ok" => DOMAIN ks[Order].keys # {}
    /\ last.op \in {"max_size", "best_fit_key"} => last.ret.tag # "Panic"

\* C9: in best_fit_key no entry whose sort key is below that of the request
\* dominates the request, so every stored key that dominates it lies in the
\* range scanned.
C9_RangeKeepsDominating ==
    (last.op = "best_fit_key" /\ BuiltByNew(last.order)) =>
        LET map == ks[last.order].keys
            start == sort_key(last.order, last.num_inputs, last.num_outputs)
            rng == range(map, start)
        IN \A k \in DOMAIN map :
              /\ SortKeyLess(k, start) =>
                    ~Dominates(map[k], last.num_inputs, last.num_outputs)
              /\ Dominates(map[k], last.num_inputs, last.num_outputs) =>
                    \E n \in 1..Len(rng) : rng[n] = k

\* best_fit_key on a collection with a key below the range and one in it.
C9_Witness ==
    /\ last.op = "best_fit_key"
    /\ BuiltByNew(last.order)
    /\ LET map == ks[last.order].keys
           start == sort_key(last.order, last.num_inputs, last.num_outputs)
       IN /\ \E k \in DOMAIN map : SortKeyLess(k, start)
          /\ \E k \in DOMAIN map :
                Dominates(map[k], last.num_inputs, last.num_outputs)

\* C10: the shape best_fit_key returns dominates the request, and no other
\* stored shape that dominates the request is at or below it in both counts.
C10_DominanceMinimal ==
    (last.op = "best_fit_key" /\ BuiltByNew(last.order) /\ last.ret.tag = "Ok") =>
        /\ Dominates(last.ret, last.num_inputs, last.num_outputs)
        /\ \A k \in BatchKeys :
              (/\ Dominates(k, last.num_inputs, last.num_outputs)
               /\ k.num_inputs <= last.ret.num_inputs
               /\ k.num_outputs <= last.ret.num_outputs)
                 => SameShape(k, last.ret)

\* best_fit_key has chosen among two dominating keys, neither below the other.
C10_Witness ==
    /\ last.op = "best_fit_key"
    /\ BuiltByNew(last.order)
    /\ last.ret.tag = "Ok"
    /\ Cardinality(MinimalDominating(last.num_inputs, last.num_outputs)) = 2
====
